---- MODULE Spec2Model ----
(***************************************************************************)
(* Model of sat_solver.py: the reduction of a Flow Free puzzle to SAT      *)
(* (the clause generators), the decoder of a model into a grid of tiles,   *)
(* the cycle detector find_cycles and the refinement loop of Puzzle.solve. *)
(*                                                                         *)
(* FlowDirection is a Flag enum: UP, LEFT, DOWN, RIGHT get the values      *)
(* 1, 2, 4, 8 from auto() and the six two-direction members are their      *)
(* unions.  Iterating the enum yields the ten members in definition order  *)
(* (the behaviour of the Python versions the program was written for).     *)
(*                                                                         *)
(* The pysat IDPool is modelled by an injective numbering Id of the atoms  *)
(* and its inverse Obj; a clause is a set of non-zero integers.  The       *)
(* Minisat22 solver is modelled by what it denotes: the set of models of   *)
(* its clause set (each model is the set of the ids that are true).        *)
(***************************************************************************)
EXTENDS Integers, Sequences, FiniteSets, TLC

\* ------------------------------------------------------------------ bounds
\* the puzzles the refinement loop is run on
MaxGridSize == 3
MaxColours == 2
\* the larger puzzles whose first iteration is run
LargeGridSize == 4
LargeColours == 1
\* how far a model handed to the decoder departs from a model of the clauses
MaxDropped == 1
MaxExtra == 1

\* ------------------------------------------------------------ data model
Position(row, column) == [row |-> row, column |-> column]

UP == 1
LEFT == 2
DOWN == 4
RIGHT == 8
UP_LEFT == 3
UP_DOWN == 5
UP_RIGHT == 9
LEFT_DOWN == 6
LEFT_RIGHT == 10
DOWN_RIGHT == 12

\* the members of the enum, in definition (iteration) order
FlowDirection == <<UP, LEFT, DOWN, RIGHT, UP_LEFT, UP_DOWN, UP_RIGHT,
                   LEFT_DOWN, LEFT_RIGHT, DOWN_RIGHT>>

FlowDirections == {FlowDirection[i] : i \in DOMAIN FlowDirection}

\* flow_direction & direction, for a single direction (a power of two)
FlowAnd(flow_direction, direction) == (flow_direction \div direction) % 2 = 1

TileFlowDirection(position, flow_direction) ==
    [kind |-> "TileFlowDirection", position |-> position, value |-> flow_direction]

TileColour(position, colour) ==
    [kind |-> "TileColour", position |-> position, value |-> colour]

Tile(flow_direction, colour) == [flow_direction |-> flow_direction, colour |-> colour]

number_of_colours(puzzle) == Len(puzzle.endpoints)

positions(puzzle) ==
    {Position(row, column) : row \in 0 .. puzzle.grid_size - 1,
                             column \in 0 .. puzzle.grid_size - 1}

\* ------------------------------------------------------------- atom pool
\* ids of one cell form a block: 1..12 the flow atoms (by flag value),
\* 13.. the colour atoms.  The pool numbers the atoms in the order they are
\* first asked for; the program relies on the numbering being injective and
\* on obj inverting id, and the numbers decide only which of several true
\* atoms of one cell the decoder meets first.
BlockSize(puzzle) == 13 + number_of_colours(puzzle)

CellIndex(puzzle, position) == position.row * puzzle.grid_size + position.column

Id(puzzle, atom) ==
    CellIndex(puzzle, atom.position) * BlockSize(puzzle)
        + (IF atom.kind = "TileFlowDirection" THEN atom.value ELSE 13 + atom.value)

Obj(puzzle, variable) ==
    LET cell == variable \div BlockSize(puzzle)
        rest == variable % BlockSize(puzzle)
        position == Position(cell \div puzzle.grid_size, cell % puzzle.grid_size)
    IN  IF rest <= 12 THEN TileFlowDirection(position, rest)
                      ELSE TileColour(position, rest - 13)

\* Body applied to a value that is computed once
With(value, Body(_)) == CHOOSE result \in {Body(v) : v \in {value}} : TRUE

\* ---------------------------------------------------------------- encoder
\* A clause is a set of literals; a list of clauses is a set of clauses.

must_have_a_direction(puzzle) ==
    {{Id(puzzle, TileFlowDirection(position, flow_direction)) :
          flow_direction \in FlowDirections} : position \in positions(puzzle)}

must_have_a_colour(puzzle) ==
    {{Id(puzzle, TileColour(position, colour)) :
          colour \in 0 .. number_of_colours(puzzle) - 1} : position \in positions(puzzle)}

\* combinations(FlowDirection, 2): the pairs i < j of the definition order
must_not_have_two_directions(puzzle) ==
    {{-Id(puzzle, TileFlowDirection(position, FlowDirection[pair[1]])),
      -Id(puzzle, TileFlowDirection(position, FlowDirection[pair[2]]))} :
        pair \in {q \in (DOMAIN FlowDirection) \X (DOMAIN FlowDirection) : q[1] < q[2]},
        position \in positions(puzzle)}

must_not_have_two_colours(puzzle) ==
    {{-Id(puzzle, TileColour(position, pair[1])),
      -Id(puzzle, TileColour(position, pair[2]))} :
        pair \in {q \in (0 .. number_of_colours(puzzle) - 1)
                          \X (0 .. number_of_colours(puzzle) - 1) : q[1] < q[2]},
        position \in positions(puzzle)}

tile_must_not_flow_outside(puzzle, position, outside) ==
    {{-Id(puzzle, TileFlowDirection(position, flow_direction))} :
        flow_direction \in {f \in FlowDirections : FlowAnd(f, outside)}}

must_not_flow_outside(puzzle) ==
    UNION {tile_must_not_flow_outside(puzzle, Position(0, i), UP)
           \cup tile_must_not_flow_outside(puzzle, Position(i, 0), LEFT)
           \cup tile_must_not_flow_outside(puzzle, Position(puzzle.grid_size - 1, i), DOWN)
           \cup tile_must_not_flow_outside(puzzle, Position(i, puzzle.grid_size - 1), RIGHT) :
               i \in 0 .. puzzle.grid_size - 1}

\* sum(puzzle.endpoints, tuple()): the endpoints of all colours
AllEndpoints(puzzle) ==
    UNION {{puzzle.endpoints[c][1], puzzle.endpoints[c][2]} : c \in DOMAIN puzzle.endpoints}

only_endpoints_flow_one_way(puzzle) ==
    {IF position \in AllEndpoints(puzzle)
        THEN {Id(puzzle, TileFlowDirection(position, flow_direction)) :
                  flow_direction \in {UP, LEFT, DOWN, RIGHT}}
        ELSE {Id(puzzle, TileFlowDirection(position, flow_direction)) :
                  flow_direction \in {UP_LEFT, UP_DOWN, UP_RIGHT,
                                      LEFT_DOWN, LEFT_RIGHT, DOWN_RIGHT}} :
        position \in positions(puzzle)}

\* colour index c of the program is c - 1 here: endpoints is a 1-based sequence
endpoints_must_have_their_initial_colour(puzzle) ==
    {{Id(puzzle, TileColour(puzzle.endpoints[c][e], c - 1))} :
        c \in DOMAIN puzzle.endpoints, e \in {1, 2}}

\* neighbour_matches without the clause on the neighbour's flow direction
neighbour_matches_colour_only(puzzle, position, match_flow, neighbour_position, neighbour_match_flow) ==
    UNION {
        {{-Id(puzzle, TileFlowDirection(position, flow_direction)),
          -Id(puzzle, TileColour(position, colour)),
          Id(puzzle, TileColour(neighbour_position, colour))} :
              colour \in 0 .. number_of_colours(puzzle) - 1} :
        flow_direction \in {f \in FlowDirections : FlowAnd(f, match_flow)}}

neighbour_matches(puzzle, position, match_flow, neighbour_position, neighbour_match_flow) ==
    UNION {
        {{-Id(puzzle, TileFlowDirection(position, flow_direction))}
            \cup {Id(puzzle, TileFlowDirection(neighbour_position, neighbour_flow_direction)) :
                     neighbour_flow_direction \in
                         {f \in FlowDirections : FlowAnd(f, neighbour_match_flow)}}}
        \cup
        {{-Id(puzzle, TileFlowDirection(position, flow_direction)),
          -Id(puzzle, TileColour(position, colour)),
          Id(puzzle, TileColour(neighbour_position, colour))} :
              colour \in 0 .. number_of_colours(puzzle) - 1} :
        flow_direction \in {f \in FlowDirections : FlowAnd(f, match_flow)}}

\* tiles_flowing_into_each_other_match without the neighbour on the right
tiles_flowing_without_right(puzzle) ==
    UNION {
        (IF position.row > 0
            THEN neighbour_matches(puzzle, position, UP,
                                   Position(position.row - 1, position.column), DOWN)
            ELSE {})
        \cup
        (IF position.column > 0
            THEN neighbour_matches(puzzle, position, LEFT,
                                   Position(position.row, position.column - 1), RIGHT)
            ELSE {})
        \cup
        (IF position.row < puzzle.grid_size - 1
            THEN neighbour_matches(puzzle, position, DOWN,
                                   Position(position.row + 1, position.column), UP)
            ELSE {}) :
        position \in positions(puzzle)}

tiles_flowing_into_each_other_match(puzzle) ==
    UNION {
        (IF position.row > 0
            THEN neighbour_matches(puzzle, position, UP,
                                   Position(position.row - 1, position.column), DOWN)
            ELSE {})
        \cup
        (IF position.column > 0
            THEN neighbour_matches(puzzle, position, LEFT,
                                   Position(position.row, position.column - 1), RIGHT)
            ELSE {})
        \cup
        (IF position.row < puzzle.grid_size - 1
            THEN neighbour_matches(puzzle, position, DOWN,
                                   Position(position.row + 1, position.column), UP)
            ELSE {})
        \cup
        (IF position.column < puzzle.grid_size - 1
            THEN neighbour_matches(puzzle, position, RIGHT,
                                   Position(position.row, position.column + 1), LEFT)
            ELSE {}) :
        position \in positions(puzzle)}

\* the clause list Puzzle.solve hands to the solver
StaticClauses(puzzle) ==
    must_not_flow_outside(puzzle)
    \cup must_have_a_direction(puzzle)
    \cup must_have_a_colour(puzzle)
    \cup must_not_have_two_directions(puzzle)
    \cup must_not_have_two_colours(puzzle)
    \cup only_endpoints_flow_one_way(puzzle)
    \cup endpoints_must_have_their_initial_colour(puzzle)
    \cup tiles_flowing_into_each_other_match(puzzle)

\* ------------------------------------------------------- solver (Minisat22)
\* A model is the set of the variables it makes true.
LiteralHolds(literal, true_ids) ==
    IF literal > 0 THEN literal \in true_ids ELSE (-literal) \notin true_ids

ClauseHolds(clause, true_ids) == \E literal \in clause : LiteralHolds(literal, true_ids)

Abs(n) == IF n < 0 THEN -n ELSE n

\* the cells a clause speaks about
ClauseCells(puzzle, clause) == {Abs(literal) \div BlockSize(puzzle) : literal \in clause}

\* what a cell may hold when exactly one flow atom and one colour atom is true
CellCandidates(puzzle, cell) ==
    LET position == Position(cell \div puzzle.grid_size, cell % puzzle.grid_size)
    IN  {{Id(puzzle, TileFlowDirection(position, flow_direction)),
          Id(puzzle, TileColour(position, colour))} :
             flow_direction \in FlowDirections,
             colour \in 0 .. number_of_colours(puzzle) - 1}

\* the first and the last cell a clause speaks about
ClauseSpan(puzzle, clause) ==
    With(ClauseCells(puzzle, clause), LAMBDA cells :
         <<CHOOSE k \in cells : \A other \in cells : k <= other,
           CHOOSE k \in cells : \A other \in cells : other <= k>>)

\* All models of a clause set that contains the exactly-one clauses of every
\* cell, built cell by cell.  spans holds <<first cell, last cell, clause>>
\* for the clauses not yet decided.  The clauses whose last cell is this cell
\* are decided here: a candidate of the cell is held against those that
\* speak about this cell alone, a partial model over the cells 0..cell
\* against the others.
RECURSIVE ExtendModels(_, _, _, _)
ExtendModels(puzzle, spans, partial_models, cell) ==
    IF cell = puzzle.grid_size * puzzle.grid_size
    THEN partial_models
    ELSE With({span \in spans : span[2] = cell}, LAMBDA here :
         With({candidate \in CellCandidates(puzzle, cell) :
                  \A span \in here : span[1] = cell => ClauseHolds(span[3], candidate)},
              LAMBDA candidates :
         With({m \in {partial \cup candidate :
                         partial \in partial_models, candidate \in candidates} :
                  \A span \in here : span[1] # cell => ClauseHolds(span[3], m)},
              LAMBDA kept :
         With(spans \ here, LAMBDA rest :
              ExtendModels(puzzle, rest, kept, cell + 1)))))

ModelsOf(puzzle, clauses) ==
    With({With(ClauseSpan(puzzle, clause), LAMBDA span : <<span[1], span[2], clause>>) :
              clause \in clauses},
         LAMBDA spans : ExtendModels(puzzle, spans, {{}}, 0))

\* ---------------------------------------------------------------- decoder
\* the value None of the program (no solution, no model)
None == <<>>

\* true_variables: the positive entries of the model (id_pool.obj is applied
\* where an entry is looked at)
TrueVariables(model) == {variable \in model : variable > 0}

\* next(...) over the true variables of one kind at one position: they are
\* listed by increasing id and the first one is taken.  The result is the
\* set of that one value; the empty set stands for StopIteration.
FirstValue(puzzle, model, position, kind) ==
    With({variable \in TrueVariables(model) :
              /\ Obj(puzzle, variable).position = position
              /\ Obj(puzzle, variable).kind = kind},
         LAMBDA matching :
             IF matching = {}
             THEN {}
             ELSE {Obj(puzzle, CHOOSE variable \in matching :
                                   \A other \in matching : variable <= other).value})

\* lines 150-175 of Puzzle.solve: the grid of tiles of a model; fault is
\* TRUE when a next(...) raises StopIteration, and no grid is built then
Decode(puzzle, model) ==
    With([position \in positions(puzzle) |->
             <<FirstValue(puzzle, model, position, "TileFlowDirection"),
               FirstValue(puzzle, model, position, "TileColour")>>],
         LAMBDA found :
             IF \E position \in positions(puzzle) :
                    found[position][1] = {} \/ found[position][2] = {}
             THEN [fault |-> TRUE, solution |-> None]
             ELSE [fault |-> FALSE,
                   solution |->
                      [row \in 0 .. puzzle.grid_size - 1 |->
                          [column \in 0 .. puzzle.grid_size - 1 |->
                              Tile(CHOOSE flow_direction \in found[Position(row, column)][1] : TRUE,
                                   CHOOSE colour \in found[Position(row, column)][2] : TRUE)]]])

TileAt(solution, position) == solution[position.row][position.column]

\* ----------------------------------------------------------- find_cycles
Elements(list) == {list[i] : i \in DOMAIN list}

\* a += b on lists: the left operand is extended in place
ListPlusInPlace(left, right) == [result |-> left \o right, left_after |-> left \o right]

\* a + b on lists: a new list; the operands are left as they were
ListPlus(left, right) == [result |-> left \o right, left_after |-> left]

\* the (direction, potential_next_position) pairs of component, in order
Steps(position) ==
    <<<<UP, Position(position.row - 1, position.column)>>,
      <<LEFT, Position(position.row, position.column - 1)>>,
      <<DOWN, Position(position.row + 1, position.column)>>,
      <<RIGHT, Position(position.row, position.column + 1)>>>>

\* the for loop of component looking UP and LEFT only
NextPositionUpLeft(flow_direction, position, visited) ==
    With(Steps(position), LAMBDA steps :
    With({i \in {1, 2} :
             /\ FlowAnd(flow_direction, steps[i][1])
             /\ steps[i][2] \notin Elements(visited)},
         LAMBDA hits :
             IF hits = {} THEN {}
             ELSE {steps[CHOOSE i \in hits : \A j \in hits : i <= j][2]}))

\* the for loop with break of component: the set of the first linked
\* position that is not in visited; the empty set when next_position stays
\* None
NextPosition(flow_direction, position, visited) ==
    With(Steps(position), LAMBDA steps :
    With({i \in DOMAIN steps :
             /\ FlowAnd(flow_direction, steps[i][1])
             /\ steps[i][2] \notin Elements(visited)},
         LAMBDA hits :
             IF hits = {} THEN {}
             ELSE {steps[CHOOSE i \in hits : \A j \in hits : i <= j][2]}))

\* component(position, visited_previously): the list it returns
RECURSIVE component(_, _, _)
component(solution, position, visited_previously) ==
    IF position \in Elements(visited_previously)
    THEN visited_previously
    ELSE With(ListPlus(visited_previously, <<position>>).result, LAMBDA visited :
         With(NextPosition(TileAt(solution, position).flow_direction, position, visited),
              LAMBDA next_position :
              IF next_position # {}
              THEN ListPlus(visited,
                            component(solution, CHOOSE next \in next_position : TRUE,
                                      visited)).result
              ELSE visited))

\* what a top-level call component(position) leaves in the list object that
\* is the default of visited_previously
DefaultAfter(position, default_list) ==
    IF position \in Elements(default_list)
    THEN default_list
    ELSE ListPlus(default_list, <<position>>).left_after

\* the endpoint pass tracing from the endpoint of the first colour only
EndpointPassFirstColour(puzzle, solution, colour, state) ==
    With(puzzle.endpoints[1][1], LAMBDA start :
         [visited |-> state.visited \o component(solution, start, state.default_list),
          default_list |-> DefaultAfter(start, state.default_list)])

\* lines 439-441: the traces from the first endpoint of every colour.
\* state = [visited, default_list]
RECURSIVE EndpointPass(_, _, _, _)
EndpointPass(puzzle, solution, colour, state) ==
    IF colour > Len(puzzle.endpoints)
    THEN state
    ELSE With(puzzle.endpoints[colour][1], LAMBDA start :
         With([visited |-> state.visited
                              \o component(solution, start, state.default_list),
               default_list |-> DefaultAfter(start, state.default_list)],
              LAMBDA traced :
              EndpointPass(puzzle, solution, colour + 1, traced)))

\* lines 450-458: the TileFlowDirection of every position of a trace
CycleTiles(solution, cycle) ==
    [i \in DOMAIN cycle |->
        TileFlowDirection(cycle[i], TileAt(solution, cycle[i]).flow_direction)]

\* the cycle pass looking at the cells of the first row only
RECURSIVE CyclePassFirstRow(_, _, _, _)
CyclePassFirstRow(puzzle, solution, cell, state) ==
    IF cell = puzzle.grid_size
    THEN state
    ELSE With(Position(cell \div puzzle.grid_size, cell % puzzle.grid_size),
              LAMBDA position :
         IF position \in Elements(state.visited)
         THEN CyclePassFirstRow(puzzle, solution, cell + 1, state)
         ELSE With(component(solution, position, state.default_list), LAMBDA cycle :
              With([visited |-> state.visited \o cycle,
                    default_list |-> DefaultAfter(position, state.default_list),
                    cycles |-> Append(state.cycles, CycleTiles(solution, cycle))],
                   LAMBDA traced :
                   CyclePassFirstRow(puzzle, solution, cell + 1, traced))))

\* the cycle pass without visited.extend(cycle)
RECURSIVE CyclePassNoExtend(_, _, _, _)
CyclePassNoExtend(puzzle, solution, cell, state) ==
    IF cell = puzzle.grid_size * puzzle.grid_size
    THEN state
    ELSE With(Position(cell \div puzzle.grid_size, cell % puzzle.grid_size),
              LAMBDA position :
         IF position \in Elements(state.visited)
         THEN CyclePassNoExtend(puzzle, solution, cell + 1, state)
         ELSE With(component(solution, position, state.default_list), LAMBDA cycle :
              With([visited |-> state.visited,
                    default_list |-> DefaultAfter(position, state.default_list),
                    cycles |-> Append(state.cycles, CycleTiles(solution, cycle))],
                   LAMBDA traced :
                   CyclePassNoExtend(puzzle, solution, cell + 1, traced))))

\* lines 443-458: the traces from the cells not yet visited, in row-major
\* order.  state = [visited, default_list, cycles]
RECURSIVE CyclePass(_, _, _, _)
CyclePass(puzzle, solution, cell, state) ==
    IF cell = puzzle.grid_size * puzzle.grid_size
    THEN state
    ELSE With(Position(cell \div puzzle.grid_size, cell % puzzle.grid_size),
              LAMBDA position :
         IF position \in Elements(state.visited)
         THEN CyclePass(puzzle, solution, cell + 1, state)
         ELSE With(component(solution, position, state.default_list), LAMBDA cycle :
              With([visited |-> state.visited \o cycle,
                    default_list |-> DefaultAfter(position, state.default_list),
                    cycles |-> Append(state.cycles, CycleTiles(solution, cycle))],
                   LAMBDA traced :
                   CyclePass(puzzle, solution, cell + 1, traced))))

\* the clause of one cycle without the negation
CycleClausePositive(puzzle, cycle) == [i \in DOMAIN cycle |-> Id(puzzle, cycle[i])]

\* line 459: the clause of one cycle
CycleClause(puzzle, cycle) == [i \in DOMAIN cycle |-> -Id(puzzle, cycle[i])]

\* find_cycles(puzzle, solution): the clauses it returns, and the content of
\* the default list of component when it returns.  The def statement of
\* component runs at every call of find_cycles and makes a new default list.
find_cycles(puzzle, solution) ==
    With(EndpointPass(puzzle, solution, 1, [visited |-> <<>>, default_list |-> <<>>]),
         LAMBDA traced :
    With(CyclePass(puzzle, solution, 0,
                   [visited |-> traced.visited,
                    default_list |-> traced.default_list,
                    cycles |-> <<>>]),
         LAMBDA final :
         [clauses |-> [i \in DOMAIN final.cycles |-> CycleClause(puzzle, final.cycles[i])],
          default_list |-> final.default_list]))

\* ------------------------------------------------------------ the puzzles
Cells(grid_size) ==
    {Position(row, column) : row \in 0 .. grid_size - 1, column \in 0 .. grid_size - 1}

EndpointPairs(grid_size) ==
    {pair \in Cells(grid_size) \X Cells(grid_size) : pair[1] # pair[2]}

\* the well-formed puzzles: endpoints in the grid, pairwise distinct, two
\* per colour
WellFormed(grid_size, colours) ==
    {[grid_size |-> grid_size, endpoints |-> endpoints] :
        endpoints \in {e \in [1 .. colours -> EndpointPairs(grid_size)] :
            \A i, j \in 1 .. colours :
                i < j => {e[i][1], e[i][2]} \cap {e[j][1], e[j][2]} = {}}}

Puzzles ==
    UNION {WellFormed(grid_size, colours) :
               grid_size \in 1 .. MaxGridSize, colours \in 1 .. MaxColours}

LargePuzzles ==
    UNION {WellFormed(LargeGridSize, colours) : colours \in 1 .. LargeColours}

\* the ids the pool has issued when the static clauses are generated
IssuedIds(p) ==
    {Id(p, TileFlowDirection(position, flow_direction)) :
         position \in positions(p), flow_direction \in FlowDirections}
    \cup {Id(p, TileColour(position, colour)) :
         position \in positions(p), colour \in 0 .. number_of_colours(p) - 1}

\* the subsets of at most size elements
RECURSIVE SmallSubsets(_, _)
SmallSubsets(set, size) ==
    IF size = 0
    THEN {{}}
    ELSE {subset \cup added_element :
             subset \in SmallSubsets(set, size - 1),
             added_element \in {{}} \cup {{element} : element \in set}}

\* ------------------------------------------------------------ Puzzle.solve
VARIABLES
    puzzle,          \* the Puzzle solve is called on
    pc,              \* where solve stands
    static_models,   \* solver: the models of the clauses it was built with
    added,           \* solver: the clauses given to add_clause
    model,           \* solver.get_model(): the variables that are true
    solution,        \* the grid decoded last, or None
    cycles,          \* the clauses find_cycles returned last
    default_visited, \* the default list of component when find_cycles returned
    decoded,         \* the flow grids decoded in earlier iterations
    recurred,        \* a decoded flow grid was decoded before
    result           \* what solve returned, or None

vars == <<puzzle, pc, static_models, added, model, solution, cycles,
          default_visited, decoded, recurred, result>>

Init ==
    /\ puzzle \in Puzzles
    /\ pc = "Encoding"
    /\ static_models = {}
    /\ added = {}
    /\ model = {}
    /\ solution = None
    /\ cycles = <<>>
    /\ default_visited = <<>>
    /\ decoded = {}
    /\ recurred = FALSE
    /\ result = None

\* lines 136-146: the static clauses are generated and the solver is built
Encode ==
    /\ pc = "Encoding"
    /\ static_models' = ModelsOf(puzzle, StaticClauses(puzzle))
    /\ pc' = "Solving"
    /\ UNCHANGED <<puzzle, added, model, solution, cycles, default_visited,
                   decoded, recurred, result>>

\* the models of the solver's clause set
SolverModels == {m \in static_models : \A clause \in added : ClauseHolds(clause, m)}

\* lines 148-149: solver.solve() is false, solve returns None
SolveUnsat ==
    /\ pc = "Solving"
    /\ SolverModels = {}
    /\ pc' = "NoSolution"
    /\ result' = None
    /\ UNCHANGED <<puzzle, static_models, added, model, solution, cycles,
                   default_visited, decoded, recurred>>

\* lines 148, 152: solver.solve() is true, get_model() is any model
SolveSat ==
    /\ pc = "Solving"
    /\ \E m \in SolverModels : model' = m
    /\ pc' = "Decoding"
    /\ UNCHANGED <<puzzle, static_models, added, solution, cycles,
                   default_visited, decoded, recurred, result>>

\* the flow directions of a decoded grid, cell by cell
FlowGrid(grid_size, grid) ==
    [position \in Cells(grid_size) |-> TileAt(grid, position).flow_direction]

\* lines 150-175: the model is decoded; a StopIteration ends solve
DecodeModel ==
    /\ pc = "Decoding"
    /\ \E outcome \in {Decode(puzzle, model)} :
          IF outcome.fault
          THEN /\ pc' = "Fault"
               /\ solution' = None
               /\ UNCHANGED <<decoded, recurred>>
          ELSE /\ pc' = "CycleCheck"
               /\ solution' = outcome.solution
               /\ \E flows \in {FlowGrid(puzzle.grid_size, outcome.solution)} :
                     /\ decoded' = decoded \cup {flows}
                     /\ recurred' = (recurred \/ flows \in decoded)
    /\ UNCHANGED <<puzzle, static_models, added, model, cycles, default_visited, result>>

\* lines 176-181: find_cycles; no cycle ends the loop and the grid is
\* returned, otherwise every clause is added to the solver
CycleCheck ==
    /\ pc = "CycleCheck"
    /\ \E found \in {find_cycles(puzzle, solution)} :
          /\ cycles' = found.clauses
          /\ default_visited' = found.default_list
          /\ IF Len(found.clauses) = 0
             THEN /\ pc' = "Solved"
                  /\ result' = solution
                  /\ added' = added
             ELSE /\ pc' = "Solving"
                  /\ result' = result
                  /\ added' = added \cup {Elements(found.clauses[i]) :
                                             i \in DOMAIN found.clauses}
    /\ UNCHANGED <<puzzle, static_models, model, solution, decoded, recurred>>

Next == Encode \/ SolveUnsat \/ SolveSat \/ DecodeModel \/ CycleCheck

Spec == Init /\ [][Next]_vars

\* where solve has ended: a return, or the StopIteration of the decoder
Terminal == {"Solved", "NoSolution", "Fault"}

\* solve takes a step.  Every action of Next changes pc, and at every pc
\* outside Terminal an action is enabled (Encode, DecodeModel and CycleCheck
\* have no other guard, SolveUnsat and SolveSat cover both outcomes of
\* solver.solve()), so the steps of solve are the changes of pc.
Running ==
    /\ pc \notin Terminal
    /\ pc' \in ({"Solving", "Decoding", "CycleCheck"} \cup Terminal) \ {pc}

\* solve is one sequential call: it keeps running until it has ended
FairSpec == Spec /\ WF_pc(Running)

\* The first iteration of solve on the larger puzzles: encoding, one model,
\* its grid and find_cycles on it.
InitFirst ==
    /\ puzzle \in Puzzles \cup LargePuzzles
    /\ pc = "Encoding"
    /\ static_models = {}
    /\ added = {}
    /\ model = {}
    /\ solution = None
    /\ cycles = <<>>
    /\ default_visited = <<>>
    /\ decoded = {}
    /\ recurred = FALSE
    /\ result = None

NextFirst ==
    \/ Encode
    \/ (added = {} /\ SolveUnsat)
    \/ (added = {} /\ SolveSat)
    \/ DecodeModel
    \/ CycleCheck

SpecFirst == InitFirst /\ [][NextFirst]_vars

\* The decoding step on models that break the exactly-one invariant: a
\* model of the static clauses with up to MaxDropped true variables made
\* false and up to MaxExtra further variables made true.
InitDecode ==
    /\ puzzle \in WellFormed(2, 1) \cup WellFormed(2, 2)
    /\ pc = "Decoding"
    /\ static_models = ModelsOf(puzzle, StaticClauses(puzzle))
    /\ added = {}
    /\ \E m \in static_models :
         \E dropped \in SmallSubsets(m, MaxDropped) :
           \E extra \in SmallSubsets(IssuedIds(puzzle) \ m, MaxExtra) :
              model = (m \ dropped) \cup extra
    /\ solution = None
    /\ cycles = <<>>
    /\ default_visited = <<>>
    /\ decoded = {}
    /\ recurred = FALSE
    /\ result = None

NextDecode == DecodeModel

SpecDecode == InitDecode /\ [][NextDecode]_vars

\* ------------------------------------------------------- the flow graph
\* The graph the properties speak about, defined on a grid without the
\* tracing of find_cycles.
Directions == {UP, LEFT, DOWN, RIGHT}

Opposite(direction) ==
    CASE direction = UP -> DOWN
      [] direction = DOWN -> UP
      [] direction = LEFT -> RIGHT
      [] direction = RIGHT -> LEFT

Toward(position, direction) ==
    CASE direction = UP -> Position(position.row - 1, position.column)
      [] direction = DOWN -> Position(position.row + 1, position.column)
      [] direction = LEFT -> Position(position.row, position.column - 1)
      [] direction = RIGHT -> Position(position.row, position.column + 1)

Degree(flow_direction) ==
    Cardinality({direction \in Directions : FlowAnd(flow_direction, direction)})

\* a flows toward b
FlowsInto(grid, a, b) ==
    \E direction \in Directions :
        /\ Toward(a, direction) = b
        /\ FlowAnd(TileAt(grid, a).flow_direction, direction)

\* the cells of the grid one flow link away from a cell, in either direction
Neighbours(grid_size, grid, a) ==
    {b \in {Toward(a, direction) : direction \in Directions} \cap Cells(grid_size) :
        FlowsInto(grid, a, b) \/ FlowsInto(grid, b, a)}

RECURSIVE Closure(_, _, _)
Closure(grid_size, grid, set) ==
    LET more == set \cup UNION {Neighbours(grid_size, grid, a) : a \in set}
    IN  IF more = set THEN set ELSE Closure(grid_size, grid, more)

\* the component of the flow graph a cell lies in
Component(grid_size, grid, position) == Closure(grid_size, grid, {position})

\* the components that hold no endpoint
OrphanComponents(p, grid) ==
    {orphan \in {Component(p.grid_size, grid, position) : position \in Cells(p.grid_size)} :
        orphan \cap AllEndpoints(p) = {}}

\* a set of cells that is a closed cycle: every cell has two flow directions
\* and both lead to cells of the set that flow back
ClosedCycle(grid, set) ==
    \A a \in set :
        /\ Degree(TileAt(grid, a).flow_direction) = 2
        /\ \A direction \in Directions :
              FlowAnd(TileAt(grid, a).flow_direction, direction) =>
                  /\ Toward(a, direction) \in set
                  /\ FlowsInto(grid, Toward(a, direction), a)

\* the cells of colour c form one simple path between the endpoints of c:
\* the links of every such cell stay among them and are answered, the two
\* endpoints have one link and every other cell two, and all are connected
OnePath(p, grid, c) ==
    LET cells == {a \in Cells(p.grid_size) : TileAt(grid, a).colour = c - 1}
        ends == {p.endpoints[c][1], p.endpoints[c][2]}
    IN  /\ ends \subseteq cells
        /\ \A a \in cells :
              /\ Degree(TileAt(grid, a).flow_direction) = (IF a \in ends THEN 1 ELSE 2)
              /\ \A direction \in Directions :
                    FlowAnd(TileAt(grid, a).flow_direction, direction) =>
                        /\ Toward(a, direction) \in cells
                        /\ FlowsInto(grid, Toward(a, direction), a)
        /\ Component(p.grid_size, grid, p.endpoints[c][1]) = cells

\* the grid find_cycles was called on last is still in solution
AfterCycleCheck == solution # None /\ pc \in {"Solving", "Decoding", "Solved"}

\* ------------------------------------------------------------ properties

\* C1: when solve returns a Solution, the cells of every colour form one
\* simple path between the two endpoints of the colour, and no cell of the
\* returned grid lies in a component without an endpoint.
C1_SolvedIsOnePathPerColour ==
    pc = "Solved" =>
        /\ result # None
        /\ \A c \in 1 .. number_of_colours(puzzle) : OnePath(puzzle, result, c)
        /\ OrphanComponents(puzzle, result) = {}

C1_Witness ==
    /\ pc = "Solved"
    /\ added # {}
    /\ number_of_colours(puzzle) = 2

\* C2: every run of solve reaches Solved or NoSolution.
C2_Terminates == <>(pc \in {"Solved", "NoSolution"})

C2_Witness ==
    /\ pc = "Solved"
    /\ Cardinality(decoded) >= 3

\* a model of the static clauses whose grid has no endpoint-free loop
ValidModel(m) == OrphanComponents(puzzle, Decode(puzzle, m).solution) = {}

\* C3: every model of the static clauses without an endpoint-free loop
\* satisfies every blocking clause added, and solve returns None only when
\* there is no such model.
C3_BlockingKeepsValidSolutions ==
    /\ \A clause \in added : \A m \in static_models :
          ClauseHolds(clause, m) \/ ~ValidModel(m)
    /\ pc = "NoSolution" => \A m \in static_models : ~ValidModel(m)

C3_Witness ==
    /\ pc = "Solving"
    /\ added # {}
    /\ \E m \in static_models : ValidModel(m)

ScenarioA == [grid_size |-> 2, endpoints |-> <<<<Position(0, 0), Position(1, 1)>>>>]

\* C4: on scenario A the static clauses have no model: solve goes from
\* Solving to NoSolution, no model is decoded and no clause is added.
C4_ScenarioAUnsat ==
    puzzle = ScenarioA =>
        /\ pc \in {"Encoding", "Solving", "NoSolution"}
        /\ static_models = {}
        /\ model = {}
        /\ solution = None
        /\ added = {}
        /\ decoded = {}

C4_Witness ==
    /\ puzzle = ScenarioA
    /\ pc = "NoSolution"

\* a model breaks the decoder invariant: some cell has no or several true
\* flow atoms, or no or several true colour atoms
BreaksDecoderInvariant(p, m) ==
    \E position \in positions(p) : \E kind \in {"TileFlowDirection", "TileColour"} :
        Cardinality({variable \in TrueVariables(m) :
                        /\ Obj(p, variable).position = position
                        /\ Obj(p, variable).kind = kind}) # 1

\* C5: decoding a model that breaks the decoder invariant ends in the fault
\* and no grid is produced.
C5_BadModelIsFatal ==
    (pc \in {"CycleCheck", "Fault"} /\ BreaksDecoderInvariant(puzzle, model)) =>
        (pc = "Fault" /\ solution = None)

\* C6: in every decoded grid, a cell that flows toward a neighbour in the
\* grid is flowed into by that neighbour, for all four directions.
C6_LinkSymmetry ==
    solution # None =>
        \A a \in Cells(puzzle.grid_size) : \A direction \in Directions :
            (/\ Toward(a, direction) \in Cells(puzzle.grid_size)
             /\ FlowAnd(TileAt(solution, a).flow_direction, direction))
                => FlowAnd(TileAt(solution, Toward(a, direction)).flow_direction,
                           Opposite(direction))

C6_Witness ==
    /\ pc = "Solved"
    /\ puzzle.grid_size = 3
    /\ TileAt(solution, Position(1, 1)).flow_direction = LEFT_RIGHT
    /\ TileAt(solution, Position(1, 2)).flow_direction = UP_LEFT

\* C7: the clauses find_cycles returns are false under the model just
\* decoded and are all in the solver, and no flow grid is decoded twice.
C7_NoGridRecurs ==
    /\ ~recurred
    /\ (pc = "Solving" /\ solution # None) =>
          \A i \in DOMAIN cycles :
              /\ ~ClauseHolds(Elements(cycles[i]), model)
              /\ Elements(cycles[i]) \in added

C7_Witness ==
    /\ Cardinality(decoded) >= 2
    /\ pc = "CycleCheck"

\* the cells marked when find_cycles has traced from the endpoints
Marked(p, grid) ==
    Elements(EndpointPass(p, grid, 1, [visited |-> <<>>, default_list |-> <<>>]).visited)

\* the cells the clauses returned by find_cycles speak about
CycleCells(p, clauses) ==
    UNION {{Obj(p, -clauses[i][j]).position : j \in DOMAIN clauses[i]} :
               i \in DOMAIN clauses}

\* C8: after the endpoint pass the marked cells are the cells of the
\* components that hold an endpoint, the second endpoints among them; every
\* other cell lies on a closed cycle without endpoint, and no marked cell is
\* reported in a clause.
C8_EndpointPass ==
    AfterCycleCheck =>
        LET marked == Marked(puzzle, solution)
        IN  /\ marked = UNION {Component(puzzle.grid_size, solution, endpoint) :
                                   endpoint \in AllEndpoints(puzzle)}
            /\ AllEndpoints(puzzle) \subseteq marked
            /\ \A a \in Cells(puzzle.grid_size) \ marked :
                  /\ Component(puzzle.grid_size, solution, a) \cap AllEndpoints(puzzle) = {}
                  /\ ClosedCycle(solution, Component(puzzle.grid_size, solution, a))
            /\ CycleCells(puzzle, cycles) \cap marked = {}

C8_Witness ==
    /\ AfterCycleCheck
    /\ Marked(puzzle, solution) # Cells(puzzle.grid_size)
    /\ number_of_colours(puzzle) = 2

\* C9: find_cycles returns one clause per endpoint-free component, and the
\* literals of a clause are the negated flow atoms of the cells of one such
\* component.
C9_OneClausePerCycle ==
    AfterCycleCheck =>
        LET orphans == OrphanComponents(puzzle, solution)
        IN  /\ Len(cycles) = Cardinality(orphans)
            /\ {Elements(cycles[i]) : i \in DOMAIN cycles}
                 = {{-Id(puzzle, TileFlowDirection(a, TileAt(solution, a).flow_direction)) :
                        a \in orphan} : orphan \in orphans}

C9_Witness ==
    /\ AfterCycleCheck
    /\ Len(cycles) = 2

\* C10: the default list of component is empty whenever find_cycles has
\* returned, and every clause returned is the trace from its first cell
\* with an empty visited list.
C10_DefaultListUntouched ==
    /\ default_visited = <<>>
    /\ AfterCycleCheck =>
          \A i \in DOMAIN cycles :
              LET start == Obj(puzzle, -cycles[i][1]).position
                  trace == component(solution, start, <<>>)
              IN  cycles[i] = [j \in DOMAIN trace |->
                                  -Id(puzzle, TileFlowDirection(trace[j],
                                          TileAt(solution, trace[j]).flow_direction))]

C10_Witness ==
    /\ AfterCycleCheck
    /\ Len(cycles) >= 1
    /\ number_of_colours(puzzle) = 2
    /\ pc = "Decoding"

====
